---- MODULE Spec2Model ----
(***************************************************************************)
(* Model of gemini-cli-openai's response-side streaming transform          *)
(* (src/src/stream-transformer.ts): createOpenAIStreamTransformer and the  *)
(* transform / flush callbacks it hands to a TransformStream; and of the   *)
(* request-side GenerationConfigValidator (src/README.md, lines 425-825):  *)
(* the schema converter, the thinking-budget rules and the tool            *)
(* configuration.                                                          *)
(*                                                                         *)
(* JavaScript values are tagged records [k |-> <typeof>, v |-> <value>],   *)
(* so that typeof tests, the in operator and truthiness are computed as    *)
(* the code computes them.                                                 *)
(***************************************************************************)
EXTENDS Integers, Sequences, FiniteSets, TLC

VARIABLES
    status,        \* per stream: "absent", "open", "closed", "cancelled"
    model,         \* createOpenAIStreamTransformer's model argument
    outputMode,    \* createOpenAIStreamTransformer's outputMode argument
    chatID,        \* const chatID
    creationTime,  \* const creationTime
    firstChunk,    \* let firstChunk
    toolCallId,    \* let toolCallId
    toolCallName,  \* let toolCallName
    usageData,     \* let usageData
    input,         \* the chunks written to the stream so far, in arrival order
    out,           \* the frames enqueued on the readable side, in order
    origin,        \* for each frame of out, the call that enqueued it
    call           \* the last call of a GenerationConfigValidator method:
                   \* its name, its arguments and what it returned

vars == <<status, model, outputMode, chatID, creationTime, firstChunk,
          toolCallId, toolCallName, usageData, input, out, origin, call>>

streamVars == <<status, model, outputMode, chatID, creationTime, firstChunk,
                toolCallId, toolCallName, usageData, input, out, origin>>

-----------------------------------------------------------------------------
(* Bounds and sample values *)

\* Longest chunk sequence written to one stream of Spec.
MaxChunks == 2

\* Longest chunk sequence written to each stream of SpecPair.
MaxPairChunks == 2

Streams == {1, 2}

\* Outcomes of crypto.randomUUID().
UUIDs == {"uuid-a", "uuid-b"}

\* Outcomes of Math.floor(Date.now() / 1000).
Times == {1762230000, 1762230001}

\* The model argument is copied into every frame and read nowhere else.
Models == {"gemini-2.5-pro"}

\* The outputMode arguments: the four modes, the aliases, an upper-case
\* spelling and the empty string (falsy, like an omitted argument's default).
OutputModes == {"openai", "field", "tagged", "think-tags", "hidden", "r1", "R1", ""}

-----------------------------------------------------------------------------
(* JavaScript values *)

JStr(s) == [k |-> "string", v |-> s]
JNum(n) == [k |-> "number", v |-> n]
JBool(b) == [k |-> "boolean", v |-> b]
JObj(r) == [k |-> "object", v |-> r]
JArr(s) == [k |-> "array", v |-> s]
JNull == [k |-> "null"]
JUndefined == [k |-> "undefined"]

\* typeof x === "string"
IsString(x) == x.k = "string"

\* typeof x === "object" && x !== null
IsObject(x) == x.k \in {"object", "array"}

\* key in x, for an x that passed IsObject
HasKey(x, key) == x.k = "object" /\ key \in DOMAIN x.v

\* x.key: undefined when x has no such own property
Get(x, key) == IF HasKey(x, key) THEN x.v[key] ELSE JUndefined

\* if (x): every object is truthy; null, undefined, "", 0 and false are not
Truthy(x) ==
    CASE x.k \in {"null", "undefined"} -> FALSE
      [] x.k = "string" -> x.v # ""
      [] x.k = "number" -> x.v # 0
      [] x.k = "boolean" -> x.v
      [] OTHER -> TRUE

\* String.prototype.toLowerCase on the mode spellings and the type names
ToLowerCase(s) ==
    CASE s = "R1" -> "r1"
      [] s = "Think-Tags" -> "think-tags"
      [] s = "STRING" -> "string"
      [] s = "Integer" -> "integer"
      [] OTHER -> s

\* JSON.stringify of an object: a property whose value is undefined is left out
StringifyObject(r) == [key \in {x \in DOMAIN r : r[x].k # "undefined"} |-> r[key]]

\* JSON.stringify(toolData.args): the JSON text of the value
\* (JSON.stringify(undefined) is undefined)
JSONStringify(x) == IF x.k = "undefined" THEN JUndefined ELSE JStr([json |-> x])

\* a + b on two numbers
Plus(a, b) == JNum(a.v + b.v)

\* {}
EmptyObject == [key \in {} |-> JNull]

\* encoder.encode(`data: ${json}\n\n`): one SSE frame carrying a JSON payload
SseFrame(payload) == [k |-> "json", v |-> payload]

\* encoder.encode("data: [DONE]\n\n")
DoneFrame == [k |-> "text", v |-> "[DONE]"]

OPENAI_CHAT_COMPLETION_OBJECT == "chat.completion.chunk"

-----------------------------------------------------------------------------
(* Chunks *)

Chunk(t, d) == [type |-> t, data |-> d]

FunctionCall == JObj([name |-> JStr("get_weather"), args |-> JObj([city |-> JStr("Oslo")])])

Usage(i, o) == JObj([inputTokens |-> JNum(i), outputTokens |-> JNum(o)])

\* The chunks a stream may be handed: every kind with data of its own shape,
\* kinds with data of another kind's shape (StreamChunk does not tie data to
\* type, so the guards decide at run time), and a kind the switch does not know.
Chunks ==
    { Chunk("text", JStr("Hi")),
      Chunk("text", JObj([reasoning |-> JStr("Hm")])),
      Chunk("thinking_content", JStr("<think>")),
      Chunk("real_thinking", JStr("Hm")),
      Chunk("reasoning", JObj([reasoning |-> JStr("Hm")])),
      Chunk("reasoning", JObj([toolCode |-> JStr("print(1)")])),
      Chunk("reasoning_end", JObj([finished |-> JBool(TRUE)])),
      Chunk("tool_code", FunctionCall),
      Chunk("tool_code", JStr("Hi")),
      Chunk("native_tool", JObj([type |-> JStr("search"), data |-> JObj([q |-> JStr("x")])])),
      Chunk("grounding_metadata", JObj([webSearchQueries |-> JArr(<<>>)])),
      Chunk("grounding_metadata", JStr("")),
      Chunk("usage", Usage(10, 5)),
      Chunk("usage", Usage(1, 2)),
      Chunk("usage", JStr("Hi")),
      Chunk("ping", JStr("Hi")) }

-----------------------------------------------------------------------------
(* Type guards *)

isReasoningData(data) ==
    IsObject(data) /\ (HasKey(data, "reasoning") \/ HasKey(data, "toolCode"))

isReasoningEndData(data) == IsObject(data) /\ HasKey(data, "finished")

isGeminiFunctionCall(data) ==
    IsObject(data) /\ HasKey(data, "name") /\ HasKey(data, "args")

isUsageData(data) ==
    IsObject(data) /\ HasKey(data, "inputTokens") /\ HasKey(data, "outputTokens")

isNativeToolResponse(data) ==
    IsObject(data) /\ HasKey(data, "type") /\ HasKey(data, "data")

-----------------------------------------------------------------------------
(* createOpenAIStreamTransformer *)

rawMode(o) == ToLowerCase(IF o # "" THEN o ELSE "tagged")

mode(o) == IF rawMode(o) = "think-tags" THEN "tagged" ELSE rawMode(o)

isR1(o) == mode(o) = "r1"

Init ==
    /\ status = [s \in Streams |-> "absent"]
    /\ model = [s \in Streams |-> ""]
    /\ outputMode = [s \in Streams |-> ""]
    /\ chatID = [s \in Streams |-> ""]
    /\ creationTime = [s \in Streams |-> 0]
    /\ firstChunk = [s \in Streams |-> TRUE]
    /\ toolCallId = [s \in Streams |-> JNull]
    /\ toolCallName = [s \in Streams |-> JNull]
    /\ usageData = [s \in Streams |-> JUndefined]
    /\ input = [s \in Streams |-> <<>>]
    /\ out = [s \in Streams |-> <<>>]
    /\ origin = [s \in Streams |-> <<>>]
    /\ call = [fn |-> "none"]

\* One call of createOpenAIStreamTransformer(m, o).
Create(s, m, o) ==
    /\ status[s] = "absent"
    /\ \E u \in UUIDs, t \in Times :
          /\ chatID' = [chatID EXCEPT ![s] = <<"chatcmpl-", u>>]
          /\ creationTime' = [creationTime EXCEPT ![s] = t]
    /\ model' = [model EXCEPT ![s] = m]
    /\ outputMode' = [outputMode EXCEPT ![s] = o]
    /\ firstChunk' = [firstChunk EXCEPT ![s] = TRUE]
    /\ toolCallId' = [toolCallId EXCEPT ![s] = JNull]
    /\ toolCallName' = [toolCallName EXCEPT ![s] = JNull]
    /\ usageData' = [usageData EXCEPT ![s] = JUndefined]
    /\ status' = [status EXCEPT ![s] = "open"]
    /\ UNCHANGED <<input, out, origin, call>>

-----------------------------------------------------------------------------
(* transform(chunk, controller) *)

\* delta.role = "assistant" (with delta.content = null before a tool call),
\* set only while firstChunk is true
RoleDelta(first, withNullContent) ==
    IF ~first THEN EmptyObject
    ELSE IF withNullContent THEN [role |-> JStr("assistant"), content |-> JNull]
    ELSE [role |-> JStr("assistant")]

\* Mutant: reasoning text goes to reasoning_content in every mode.
ReasoningDeltaContent(r1, text) == [reasoning_content |-> text]

\* the field that carries reasoning text
ReasoningDelta(r1, text) ==
    IF r1 THEN [reasoning_content |-> text] ELSE [reasoning |-> text]

\* Mutant: the call id is also written where the function's name belongs.
ToolCallsNamedById(callId, toolData) ==
    JArr(<< JObj([index |-> JNum(0),
                  id |-> JStr(callId),
                  type |-> JStr("function"),
                  function |-> JObj([name |-> JStr(callId),
                                     arguments |-> JSONStringify(Get(toolData, "args"))])]) >>)

ToolCalls(callId, toolData) ==
    JArr(<< JObj([index |-> JNum(0),
                  id |-> JStr(callId),
                  type |-> JStr("function"),
                  function |-> JObj([name |-> Get(toolData, "name"),
                                     arguments |-> JSONStringify(Get(toolData, "args"))])]) >>)

\* Whether this chunk is a case of the switch that clears firstChunk.
TakesRole(chunk) ==
    \/ chunk.type \in {"text", "thinking_content"} /\ IsString(chunk.data)
    \/ chunk.type = "tool_code" /\ isGeminiFunctionCall(chunk.data)

\* The delta object the switch leaves behind for a chunk (usage returns before).
Delta(chunk, first, r1, callId) ==
    LET d == chunk.data IN
    CASE chunk.type \in {"text", "thinking_content"} ->
            IF IsString(d) THEN RoleDelta(first, FALSE) @@ [content |-> d]
            ELSE EmptyObject
      [] chunk.type = "real_thinking" ->
            IF IsString(d) THEN ReasoningDelta(r1, d) ELSE EmptyObject
      [] chunk.type = "reasoning" ->
            IF isReasoningData(d) THEN ReasoningDelta(r1, Get(d, "reasoning"))
            ELSE EmptyObject
      [] chunk.type = "reasoning_end" ->
            IF ~r1 /\ isReasoningEndData(d)
            THEN [reasoning_finished |-> Get(d, "finished")]
            ELSE EmptyObject
      [] chunk.type = "tool_code" ->
            IF isGeminiFunctionCall(d)
            THEN [tool_calls |-> ToolCalls(callId, d)] @@ RoleDelta(first, TRUE)
            ELSE EmptyObject
      [] chunk.type = "native_tool" ->
            IF isNativeToolResponse(d) THEN [native_tool_calls |-> JArr(<<d>>)]
            ELSE EmptyObject
      [] chunk.type = "grounding_metadata" ->
            IF Truthy(d) THEN [grounding |-> d] ELSE EmptyObject
      [] OTHER -> EmptyObject

\* Mutant: every chunk frame already carries a finish reason.
OpenAIChunkFinished(id, created, m, delta) ==
    [id |-> id,
     object |-> OPENAI_CHAT_COMPLETION_OBJECT,
     created |-> created,
     model |-> m,
     choices |-> << [index |-> 0,
                     delta |-> delta,
                     finish_reason |-> JStr("stop"),
                     logprobs |-> JNull,
                     matched_stop |-> JNull] >>,
     usage |-> JNull]

\* The OpenAIChunk object built around a delta.
OpenAIChunk(id, created, m, delta) ==
    [id |-> id,
     object |-> OPENAI_CHAT_COMPLETION_OBJECT,
     created |-> created,
     model |-> m,
     choices |-> << [index |-> 0,
                     delta |-> delta,
                     finish_reason |-> JNull,
                     logprobs |-> JNull,
                     matched_stop |-> JNull] >>,
     usage |-> JNull]

\* JSON.stringify(openAIChunk): the delta loses its undefined properties.
StringifyChunk(c) ==
    [c EXCEPT !.choices = << [c.choices[1] EXCEPT !.delta = StringifyObject(@)] >>]

\* Mutant: a frame is put ahead of the frames already queued.
EnqueueFirst(queue, frame) == <<frame>> \o queue

\* controller.enqueue(frame)
Enqueue(queue, frame) == Append(queue, frame)

\* The frames transform enqueues for a delta: one when Object.keys(delta).length > 0.
Emit(queue, id, created, m, delta) ==
    IF DOMAIN delta # {}
    THEN Enqueue(queue, SseFrame(StringifyChunk(OpenAIChunk(id, created, m, delta))))
    ELSE queue

\* Mutant: the first usage recorded is kept, later ones are dropped.
NextUsageFirstWins(old, data) ==
    IF old.k = "undefined" /\ isUsageData(data) THEN data ELSE old

\* case "usage": the value of usageData after the chunk
NextUsage(old, data) == IF isUsageData(data) THEN data ELSE old

\* Mutant: the first-chunk flag is never cleared.
NextFirstChunkKept(first, chunk) == first

\* Mutant: every chunk that runs through the switch clears the flag.
NextFirstChunkCleared(first, chunk) == FALSE

\* the value of firstChunk after the chunk
NextFirstChunk(first, chunk) == IF TakesRole(chunk) THEN FALSE ELSE first

\* Mutant: firstChunk is one flag of the module, shared by every transformer.
TransformSharedFlag(s, chunk) ==
    /\ status[s] = "open"
    /\ input' = [input EXCEPT ![s] = Append(@, chunk)]
    /\ IF chunk.type = "usage"
       THEN /\ usageData' = [usageData EXCEPT ![s] = NextUsage(@, chunk.data)]
            /\ UNCHANGED <<firstChunk, toolCallId, toolCallName, out, origin>>
       ELSE /\ \E u \in IF chunk.type = "tool_code" /\ isGeminiFunctionCall(chunk.data)
                        THEN UUIDs ELSE {"unused"} :
                  LET callId == <<"call_", u>>
                      delta == Delta(chunk, firstChunk[s], isR1(outputMode[s]), callId)
                      queue == Emit(out[s], chatID[s], creationTime[s], model[s], delta)
                  IN /\ out' = [out EXCEPT ![s] = queue]
                     /\ origin' = [origin EXCEPT ![s] =
                                     IF Len(queue) > Len(out[s])
                                     THEN @ \o [i \in 1..(Len(queue) - Len(out[s])) |-> Len(input[s]) + 1]
                                     ELSE @]
                     /\ IF chunk.type = "tool_code" /\ isGeminiFunctionCall(chunk.data)
                        THEN /\ toolCallName' = [toolCallName EXCEPT ![s] = Get(chunk.data, "name")]
                             /\ toolCallId' = [toolCallId EXCEPT ![s] = JStr(callId)]
                        ELSE UNCHANGED <<toolCallId, toolCallName>>
            /\ firstChunk' = [t \in Streams |-> NextFirstChunk(firstChunk[s], chunk)]
            /\ UNCHANGED usageData
    /\ UNCHANGED <<status, model, outputMode, chatID, creationTime, call>>

Transform(s, chunk) ==
    /\ status[s] = "open"
    /\ input' = [input EXCEPT ![s] = Append(@, chunk)]
    /\ IF chunk.type = "usage"
       THEN /\ usageData' = [usageData EXCEPT ![s] = NextUsage(@, chunk.data)]
            /\ UNCHANGED <<firstChunk, toolCallId, toolCallName, out, origin>>
       ELSE /\ \E u \in IF chunk.type = "tool_code" /\ isGeminiFunctionCall(chunk.data)
                        THEN UUIDs ELSE {"unused"} :
                  LET callId == <<"call_", u>>
                      delta == Delta(chunk, firstChunk[s], isR1(outputMode[s]), callId)
                      queue == Emit(out[s], chatID[s], creationTime[s], model[s], delta)
                  IN /\ out' = [out EXCEPT ![s] = queue]
                     /\ origin' = [origin EXCEPT ![s] =
                                     IF Len(queue) > Len(out[s])
                                     THEN @ \o [i \in 1..(Len(queue) - Len(out[s])) |-> Len(input[s]) + 1]
                                     ELSE @]
                     /\ IF chunk.type = "tool_code" /\ isGeminiFunctionCall(chunk.data)
                        THEN /\ toolCallName' = [toolCallName EXCEPT ![s] = Get(chunk.data, "name")]
                             /\ toolCallId' = [toolCallId EXCEPT ![s] = JStr(callId)]
                        ELSE UNCHANGED <<toolCallId, toolCallName>>
            /\ firstChunk' = [firstChunk EXCEPT ![s] = NextFirstChunk(@, chunk)]
            /\ UNCHANGED usageData
    /\ UNCHANGED <<status, model, outputMode, chatID, creationTime, call>>

-----------------------------------------------------------------------------
(* flush(controller) *)

\* Mutant: the finish reason ignores the tool call id.
FinishReasonStop(callId) == "stop"

FinishReason(callId) == IF Truthy(callId) THEN "tool_calls" ELSE "stop"

\* finalChunk, with its usage when usageData is set
FinalChunk(id, created, m, callId, usage) ==
    [id |-> id,
     object |-> OPENAI_CHAT_COMPLETION_OBJECT,
     created |-> created,
     model |-> m,
     choices |-> << [index |-> 0,
                     delta |-> EmptyObject,
                     finish_reason |-> JStr(FinishReason(callId))] >>]
    @@ (IF Truthy(usage)
        THEN [usage |-> [prompt_tokens |-> Get(usage, "inputTokens"),
                         completion_tokens |-> Get(usage, "outputTokens"),
                         total_tokens |-> Plus(Get(usage, "inputTokens"),
                                               Get(usage, "outputTokens"))]]
        ELSE EmptyObject)

\* Mutant: completion_tokens_details is attached in every mode.
PayloadAlwaysDetails(final, r1) ==
    final @@ [completion_tokens_details |-> [reasoning_tokens |-> 0]]

\* payload: finalChunk, with completion_tokens_details in R1 mode
Payload(final, r1) ==
    final @@ (IF r1 THEN [completion_tokens_details |-> [reasoning_tokens |-> 0]]
              ELSE EmptyObject)

\* The stream's source closed: the runtime calls flush once, after the last
\* transform, and closes the readable side.
Flush(s) ==
    /\ status[s] = "open"
    /\ LET final == FinalChunk(chatID[s], creationTime[s], model[s], toolCallId[s], usageData[s])
           payload == Payload(final, isR1(outputMode[s]))
           queue == Enqueue(Enqueue(out[s], SseFrame(payload)), DoneFrame)
       IN /\ out' = [out EXCEPT ![s] = queue]
          /\ origin' = [origin EXCEPT ![s] = @ \o [i \in 1..(Len(queue) - Len(out[s])) |-> 0]]
    /\ status' = [status EXCEPT ![s] = "closed"]
    /\ UNCHANGED <<call, model, outputMode, chatID, creationTime, firstChunk,
                   toolCallId, toolCallName, usageData, input>>

\* Mutant: cancelling ends the stream like a normal close, with a terminal
\* frame and the sentinel.
CancelWithFinish(s) ==
    /\ status[s] = "open"
    /\ LET final == [id |-> chatID[s],
                     object |-> OPENAI_CHAT_COMPLETION_OBJECT,
                     created |-> creationTime[s],
                     model |-> model[s],
                     choices |-> << [index |-> 0,
                                     delta |-> EmptyObject,
                                     finish_reason |-> JStr("stop")] >>]
       IN /\ out' = [out EXCEPT ![s] = @ \o << SseFrame(final), DoneFrame >>]
          /\ origin' = [origin EXCEPT ![s] = @ \o <<0, 0>>]
    /\ status' = [status EXCEPT ![s] = "cancelled"]
    /\ UNCHANGED <<call, model, outputMode, chatID, creationTime, firstChunk,
                   toolCallId, toolCallName, usageData, input>>

\* The consumer cancels the readable side: the transformer registers no cancel
\* callback, so the runtime errors the writable side and calls neither
\* transform nor flush again.
Cancel(s) ==
    /\ status[s] = "open"
    /\ status' = [status EXCEPT ![s] = "cancelled"]
    /\ UNCHANGED <<call, model, outputMode, chatID, creationTime, firstChunk,
                   toolCallId, toolCallName, usageData, input, out, origin>>

-----------------------------------------------------------------------------
(* Specifications *)

\* One stream, from its creation to its end.
Next ==
    \/ \E m \in Models, o \in OutputModes : Create(1, m, o)
    \/ \E c \in Chunks : Len(input[1]) < MaxChunks /\ Transform(1, c)
    \/ Flush(1)
    \/ Cancel(1)

Spec == Init /\ [][Next]_vars

\* Two stream instances: stream 1 is handed any chunk sequence, stream 2 is
\* created with stream 1's model and output mode (its own chat id, creation
\* time and call ids) and is handed stream 1's sequence, chunk by chunk.
PairChunks ==
    { Chunk("text", JStr("Hi")),
      Chunk("real_thinking", JStr("Hm")),
      Chunk("reasoning_end", JObj([finished |-> JBool(TRUE)])),
      Chunk("tool_code", FunctionCall),
      Chunk("tool_code", JStr("Hi")),
      Chunk("usage", Usage(10, 5)) }

PairModes == {"openai", "think-tags", "r1"}

PairNext ==
    \/ \E m \in Models, o \in PairModes : Create(1, m, o)
    \/ \E c \in PairChunks : Len(input[1]) < MaxPairChunks /\ Transform(1, c)
    \/ Flush(1)
    \/ status[1] # "absent" /\ Create(2, model[1], outputMode[1])
    \/ Len(input[2]) < Len(input[1]) /\ Transform(2, input[1][Len(input[2]) + 1])
    \/ status[1] = "closed" /\ Len(input[2]) = Len(input[1]) /\ Flush(2)

SpecPair == Init /\ [][PairNext]_vars

-----------------------------------------------------------------------------
(* Reading the emitted frames *)

IsJson(f) == f.k = "json"

DeltaOf(f) == f.v.choices[1].delta

FinishOf(f) == f.v.choices[1].finish_reason

IsTerminal(f) == IsJson(f) /\ FinishOf(f).k # "null"

HasDelta(f, key) == IsJson(f) /\ key \in DOMAIN DeltaOf(f)

Frames(s) == 1..Len(out[s])

\* The frames of stream s that a transform call enqueued, and their chunks.
ChunkFrames(s) == {k \in Frames(s) : origin[s][k] > 0}

ChunkOf(s, k) == input[s][origin[s][k]]

\* The frame flush enqueued before the sentinel.
TerminalOf(s) == out[s][Len(out[s]) - 1]

InR1(s) == outputMode[s] \in {"r1", "R1"}

-----------------------------------------------------------------------------
(* C1 *)

RoleKinds == {"text", "thinking_content", "tool_code"}

\* C1: in every stream, the frame of the first chunk of kind text,
\* thinking_content or tool_code that emitted a frame carries role
\* "assistant", and no other frame (reasoning frames before it, frames after
\* it, the terminal frame) carries a role: at most one frame has a role.
C1_RoleOnFirstEmitter ==
    \A s \in Streams :
        LET cand == {k \in ChunkFrames(s) : ChunkOf(s, k).type \in RoleKinds}
            withRole == {k \in Frames(s) : HasDelta(out[s][k], "role")}
        IN /\ Cardinality(withRole) <= 1
           /\ cand = {} => withRole = {}
           /\ cand # {} =>
                 /\ withRole = {CHOOSE k \in cand : \A j \in cand : k <= j}
                 /\ \A k \in withRole : DeltaOf(out[s][k]).role = JStr("assistant")

\* A flushed stream whose reasoning frame came first, without a role, and whose
\* text frame after it carries the role.
C1_Witness ==
    \E s \in Streams :
        /\ status[s] = "closed"
        /\ Len(input[s]) = 2
        /\ input[s][1].type = "real_thinking"
        /\ input[s][2].type = "text"
        /\ Len(out[s]) = 4
        /\ ~HasDelta(out[s][1], "role")
        /\ HasDelta(out[s][2], "role")

-----------------------------------------------------------------------------
(* C2 *)

ToolCodeAt(s) == {i \in 1..Len(input[s]) : input[s][i].type = "tool_code"}

\* C2 as stated: a flushed stream's terminal frame has finish_reason
\* "tool_calls" exactly when some tool_code chunk occurred in its input, and
\* "stop" otherwise.
C2_ToolCallsIffAnyToolCode ==
    \A s \in Streams :
        status[s] = "closed" =>
            FinishOf(TerminalOf(s)) =
                JStr(IF ToolCodeAt(s) # {} THEN "tool_calls" ELSE "stop")

\* C2 as amended: a flushed stream's terminal frame has finish_reason
\* "tool_calls" exactly when some tool_code chunk whose data is an object with
\* both a name and an args member occurred anywhere in its input, whatever
\* followed it, and "stop" otherwise.
C2_ToolCallsIffFunctionCall ==
    \A s \in Streams :
        status[s] = "closed" =>
            LET calls == {i \in ToolCodeAt(s) :
                            /\ input[s][i].data.k = "object"
                            /\ {"name", "args"} \subseteq DOMAIN input[s][i].data.v}
            IN FinishOf(TerminalOf(s)) =
                   JStr(IF calls # {} THEN "tool_calls" ELSE "stop")

\* A flushed stream whose function call was followed by text and still ends
\* with "tool_calls".
C2_Witness ==
    \E s \in Streams :
        /\ status[s] = "closed"
        /\ Len(input[s]) = 2
        /\ input[s][1] = Chunk("tool_code", FunctionCall)
        /\ input[s][2].type = "text"
        /\ FinishOf(TerminalOf(s)) = JStr("tool_calls")

-----------------------------------------------------------------------------
(* C3 *)

\* C3: a flushed stream ends with exactly one terminal frame (empty delta,
\* finish_reason set) directly followed by the [DONE] sentinel, every frame
\* before the terminal frame has finish_reason null, and nothing follows the
\* sentinel; a stream that was not flushed holds neither of the two.
C3_TerminalThenDone ==
    \A s \in Streams :
        LET n == Len(out[s]) IN
        IF status[s] = "closed"
        THEN /\ n >= 2
             /\ out[s][n] = DoneFrame
             /\ IsTerminal(out[s][n - 1])
             /\ DOMAIN DeltaOf(out[s][n - 1]) = {}
             /\ \A k \in 1..(n - 2) :
                   IsJson(out[s][k]) /\ FinishOf(out[s][k]) = JNull
        ELSE \A k \in 1..n : IsJson(out[s][k]) /\ FinishOf(out[s][k]) = JNull

\* A flushed stream with two content frames before its terminal frame.
C3_Witness ==
    \E s \in Streams :
        /\ status[s] = "closed"
        /\ Len(out[s]) = 4
        /\ HasDelta(out[s][1], "content")
        /\ HasDelta(out[s][2], "content")
        /\ IsTerminal(out[s][3])
        /\ out[s][4] = DoneFrame

-----------------------------------------------------------------------------
(* C4 *)

UsageAt(s) == {i \in 1..Len(input[s]) : input[s][i].type = "usage"}

Last(S) == CHOOSE i \in S : \A j \in S : j <= i

UsageOf(data) ==
    [prompt_tokens |-> data.v.inputTokens,
     completion_tokens |-> data.v.outputTokens,
     total_tokens |-> JNum(data.v.inputTokens.v + data.v.outputTokens.v)]

NoUsageFrame(s) == \A k \in ChunkFrames(s) : ChunkOf(s, k).type # "usage"

\* C4 as stated: no frame comes from a usage chunk, and a flushed stream's
\* terminal frame carries the token counts (and their sum) of the last usage
\* chunk received, or no usage field when no usage chunk was received.
C4_UsageOfLastUsageChunk ==
    \A s \in Streams :
        /\ NoUsageFrame(s)
        /\ status[s] = "closed" =>
              IF UsageAt(s) = {}
              THEN "usage" \notin DOMAIN TerminalOf(s).v
              ELSE /\ "usage" \in DOMAIN TerminalOf(s).v
                   /\ isUsageData(input[s][Last(UsageAt(s))].data)
                   /\ TerminalOf(s).v.usage = UsageOf(input[s][Last(UsageAt(s))].data)

\* C4 as amended: no frame comes from a usage chunk, and a flushed stream's
\* terminal frame carries the token counts (and their sum) of the last usage
\* chunk whose data is an object with both inputTokens and outputTokens, at
\* whatever position it arrived, or no usage field when no such chunk was
\* received.
C4_UsageOfLastUsageData ==
    \A s \in Streams :
        /\ NoUsageFrame(s)
        /\ status[s] = "closed" =>
              LET valid == {i \in UsageAt(s) :
                              /\ input[s][i].data.k = "object"
                              /\ {"inputTokens", "outputTokens"} \subseteq
                                     DOMAIN input[s][i].data.v}
              IN IF valid = {}
                 THEN "usage" \notin DOMAIN TerminalOf(s).v
                 ELSE /\ "usage" \in DOMAIN TerminalOf(s).v
                      /\ TerminalOf(s).v.usage = UsageOf(input[s][Last(valid)].data)

\* The stream [usage{10,5}, text "Hi"], flushed: one content frame, a terminal
\* frame with usage 10/5/15, the sentinel.
C4_Witness ==
    \E s \in Streams :
        /\ status[s] = "closed"
        /\ input[s] = << Chunk("usage", Usage(10, 5)), Chunk("text", JStr("Hi")) >>
        /\ Len(out[s]) = 3
        /\ DeltaOf(out[s][1]).content = JStr("Hi")
        /\ out[s][2].v.usage = [prompt_tokens |-> JNum(10),
                                completion_tokens |-> JNum(5),
                                total_tokens |-> JNum(15)]
        /\ out[s][3] = DoneFrame

-----------------------------------------------------------------------------
(* C5 *)

\* C5: in r1 mode no frame has a reasoning_finished field, no frame comes from
\* a reasoning_end chunk, and the terminal frame of a flushed stream has
\* completion_tokens_details.reasoning_tokens = 0; in every other mode no
\* frame has completion_tokens_details.
C5_R1Fields ==
    \A s \in Streams :
        /\ \A k \in Frames(s) :
              IsJson(out[s][k]) =>
                  IF InR1(s)
                  THEN ~HasDelta(out[s][k], "reasoning_finished")
                  ELSE "completion_tokens_details" \notin DOMAIN out[s][k].v
        /\ InR1(s) => \A k \in ChunkFrames(s) : ChunkOf(s, k).type # "reasoning_end"
        /\ InR1(s) /\ status[s] = "closed" =>
              /\ "completion_tokens_details" \in DOMAIN TerminalOf(s).v
              /\ TerminalOf(s).v.completion_tokens_details.reasoning_tokens = 0

\* A flushed r1 stream that was handed text and a reasoning_end chunk: the
\* text frame, the terminal frame with the token details, the sentinel.
C5_Witness ==
    \E s \in Streams :
        /\ InR1(s)
        /\ status[s] = "closed"
        /\ Len(input[s]) = 2
        /\ input[s][1].type = "text"
        /\ input[s][2].type = "reasoning_end"
        /\ Len(out[s]) = 3
        /\ out[s][2].v.completion_tokens_details.reasoning_tokens = 0

-----------------------------------------------------------------------------
(* C6, C7 *)

\* The reasoning text a real_thinking or reasoning chunk carries, if any.
HasReasoningText(c) ==
    \/ c.type = "real_thinking" /\ c.data.k = "string"
    \/ c.type = "reasoning" /\ c.data.k = "object" /\ "reasoning" \in DOMAIN c.data.v

ReasoningText(c) == IF c.type = "real_thinking" THEN c.data ELSE c.data.v.reasoning

C7_OpenaiReasoningContent ==
    \A s \in Streams :
        outputMode[s] = "openai" =>
            \A k \in ChunkFrames(s) :
                HasReasoningText(ChunkOf(s, k)) =>
                    HasDelta(out[s][k], "reasoning_content")

-----------------------------------------------------------------------------
(* C8 *)

\* The delta fields a chunk of a kind may set.
KeysOf(type) ==
    CASE type \in {"text", "thinking_content"} -> {"content", "role"}
      [] type \in {"real_thinking", "reasoning"} -> {"reasoning", "reasoning_content"}
      [] type = "reasoning_end" -> {"reasoning_finished"}
      [] type = "tool_code" -> {"tool_calls", "role", "content"}
      [] type = "native_tool" -> {"native_tool_calls"}
      [] type = "grounding_metadata" -> {"grounding"}
      [] OTHER -> {}

\* One transform call on stream s: the frames queued before stay as they are,
\* at most one frame is added, and it is a frame of the chunk just handled.
TransformStep(s) ==
    Len(input'[s]) = Len(input[s]) + 1 =>
        LET n == Len(out[s]) IN
        /\ Len(out'[s]) \in {n, n + 1}
        /\ SubSeq(out'[s], 1, n) = out[s]
        /\ Len(out'[s]) = n + 1 =>
              /\ IsJson(out'[s][n + 1])
              /\ FinishOf(out'[s][n + 1]) = JNull
              /\ DOMAIN DeltaOf(out'[s][n + 1]) \subseteq
                     KeysOf(input'[s][Len(input'[s])].type)

\* The end of stream s: flush adds the terminal frame and the sentinel and
\* nothing that an earlier chunk left behind.
FlushStep(s) ==
    status[s] = "open" /\ status'[s] = "closed" =>
        /\ Len(out'[s]) = Len(out[s]) + 2
        /\ SubSeq(out'[s], 1, Len(out[s])) = out[s]

\* C8: each transform call emits at most one frame, emits it while handling
\* its chunk and behind the frames emitted so far, flush emits only the
\* terminal frame and the sentinel, and so the non-terminal frames are in the
\* arrival order of the chunks that produced them.
C8_OneFrameInOrder ==
    /\ [][\A s \in Streams : TransformStep(s) /\ FlushStep(s)]_vars
    /\ [](\A s \in Streams :
            \A j, k \in ChunkFrames(s) : j < k => origin[s][j] < origin[s][k])

\* Reasoning, then text: two frames in that order, from chunks 1 and 2.
C8_Witness ==
    \E s \in Streams :
        /\ status[s] = "open"
        /\ Len(input[s]) = 2
        /\ input[s][1].type = "real_thinking"
        /\ input[s][2].type = "text"
        /\ origin[s] = <<1, 2>>
        /\ HasDelta(out[s][1], "reasoning")
        /\ HasDelta(out[s][2], "content")

-----------------------------------------------------------------------------
(* C9 *)

\* C9: once the consumer has cancelled a stream no frame is added to it, a
\* cancelled stream holds no terminal frame and no sentinel whatever chunks it
\* had processed, and a stream holds them only if its source closed normally.
C9_CancelEmitsNothing ==
    /\ [][\A s \in Streams :
            status[s] = "cancelled" => status'[s] = "cancelled" /\ out'[s] = out[s]]_vars
    /\ [](\A s \in Streams :
            (\E k \in Frames(s) : out[s][k] = DoneFrame \/ IsTerminal(out[s][k]))
                => status[s] = "closed")

\* A stream cancelled after a tool call and a text chunk: the two frames, no
\* terminal frame, no sentinel.
C9_Witness ==
    \E s \in Streams :
        /\ status[s] = "cancelled"
        /\ Len(input[s]) = 2
        /\ input[s][1] = Chunk("tool_code", FunctionCall)
        /\ Len(out[s]) = 2
        /\ \A k \in Frames(s) : IsJson(out[s][k]) /\ ~IsTerminal(out[s][k])

-----------------------------------------------------------------------------
(* C10 *)

MaskedChatID == <<"chatcmpl-", "*">>

MaskedCallId == JStr(<<"call_", "*">>)

\* A frame without its id and created values.
MaskIdAndCreated(f) ==
    IF IsJson(f) THEN SseFrame([f.v EXCEPT !.id = MaskedChatID, !.created = 0]) ELSE f

\* A delta without the ids of its tool calls.
MaskCallIds(delta) ==
    IF "tool_calls" \in DOMAIN delta
    THEN LET calls == delta.tool_calls.v
         IN [delta EXCEPT !.tool_calls =
                JArr([i \in DOMAIN calls |-> JObj([calls[i].v EXCEPT !.id = MaskedCallId])])]
    ELSE delta

\* A frame without its id and created values and the ids of its tool calls.
MaskAllIds(f) ==
    IF IsJson(f)
    THEN SseFrame([f.v EXCEPT !.id = MaskedChatID,
                              !.created = 0,
                              !.choices = << [f.v.choices[1] EXCEPT !.delta = MaskCallIds(@)] >>])
    ELSE f

\* Both streams were created alike, were handed the same chunks and ended.
SameRun ==
    /\ status[1] = "closed" /\ status[2] = "closed"
    /\ model[1] = model[2]
    /\ outputMode[1] = outputMode[2]
    /\ input[1] = input[2]

\* C10 as stated: two instances with the same model and mode that were handed
\* the same chunk sequence emit the same number of frames, equal in every
\* field but the frame's id and created.
C10_SameButIdAndCreated ==
    SameRun =>
        /\ Len(out[1]) = Len(out[2])
        /\ \A k \in Frames(1) : MaskIdAndCreated(out[1][k]) = MaskIdAndCreated(out[2][k])

\* C10 as amended: two instances with the same model and mode that were handed
\* the same chunk sequence emit the same number of frames, equal in every
\* field but the frame's id and created and the id of each tool call.
C10_SameButIds ==
    SameRun =>
        /\ Len(out[1]) = Len(out[2])
        /\ \A k \in Frames(1) : MaskAllIds(out[1][k]) = MaskAllIds(out[2][k])

\* Two flushed instances that were handed a tool call, then usage, and that
\* differ in chat id, creation time and call id.
C10_Witness ==
    /\ SameRun
    /\ Len(input[1]) = 2
    /\ input[1][1] = Chunk("tool_code", FunctionCall)
    /\ input[1][2].type = "usage"
    /\ Len(out[1]) = 3
    /\ chatID[1] # chatID[2]
    /\ creationTime[1] # creationTime[2]
    /\ toolCallId[1] # toolCallId[2]

-----------------------------------------------------------------------------
(* GenerationConfigValidator: thinking budget and generation config *)

\* Largest magnitude of a requested thinking_budget.
BudgetSpan == 3

Budgets == (0 - BudgetSpan)..BudgetSpan

DEFAULT_THINKING_BUDGET == -1

\* In tenths; the constant's value is not part of the sources.
DEFAULT_TEMPERATURE == JNum(7)

REASONING_EFFORT_BUDGETS ==
    [none |-> 0,
     low |-> 1024,
     medium |-> [flash |-> 12288, default |-> 16384],
     high |-> [flash |-> 24576, default |-> 32768]]

\* The capability table: two reasoning-capable models and one that is not.
geminiCliModels ==
    [m \in {"gemini-2.5-pro", "gemini-2.5-flash", "gemini-2.0-flash"} |->
        [thinking |-> m # "gemini-2.0-flash"]]

\* The model ids of a request: the table's and one the table does not know.
ModelIds == DOMAIN geminiCliModels \cup {"my-model"}

\* modelInfo?.thinking, with modelInfo = geminiCliModels[modelId]
ModelThinking(modelId) ==
    modelId \in DOMAIN geminiCliModels /\ geminiCliModels[modelId].thinking

\* modelId.includes("flash")
IncludesFlash(modelId) == modelId \in {"gemini-2.5-flash", "gemini-2.0-flash"}

\* a ?? b
Nullish(a, b) == IF a.k \in {"null", "undefined"} THEN b ELSE a

\* a || b
OrElse(a, b) == IF Truthy(a) THEN a ELSE b

\* a?.key
GetOpt(a, key) == IF a.k \in {"null", "undefined"} THEN JUndefined ELSE Get(a, key)

mapEffortToThinkingBudget(effort, modelId) ==
    LET isFlashModel == IncludesFlash(modelId) IN
    CASE effort = "none" -> REASONING_EFFORT_BUDGETS.none
      [] effort = "low" -> REASONING_EFFORT_BUDGETS.low
      [] effort = "medium" ->
            IF isFlashModel THEN REASONING_EFFORT_BUDGETS.medium.flash
            ELSE REASONING_EFFORT_BUDGETS.medium.default
      [] effort = "high" ->
            IF isFlashModel THEN REASONING_EFFORT_BUDGETS.high.flash
            ELSE REASONING_EFFORT_BUDGETS.high.default
      [] OTHER -> DEFAULT_THINKING_BUDGET

isValidEffortLevel(value) ==
    IsString(value) /\ value.v \in {"none", "low", "medium", "high"}

\* Mutant: budget 0 is let through.
validateThinkingBudgetZeroKept(modelId, thinkingBudget) ==
    IF ModelThinking(modelId) /\ thinkingBudget < -1
    THEN DEFAULT_THINKING_BUDGET
    ELSE thinkingBudget

validateThinkingBudget(modelId, thinkingBudget) ==
    IF ModelThinking(modelId)
    THEN IF thinkingBudget = 0 THEN DEFAULT_THINKING_BUDGET
         ELSE IF thinkingBudget < -1 THEN DEFAULT_THINKING_BUDGET
         ELSE thinkingBudget
    ELSE thinkingBudget

\* const reasoning_effort = options.reasoning_effort ||
\*     options.extra_body?.reasoning_effort || options.model_params?.reasoning_effort
ReasoningEffortOf(options) ==
    OrElse(OrElse(Get(options, "reasoning_effort"),
                  GetOpt(Get(options, "extra_body"), "reasoning_effort")),
           GetOpt(Get(options, "model_params"), "reasoning_effort"))

\* Whether the hint is used: reasoning_effort && this.isValidEffortLevel(reasoning_effort)
UsesEffort(effort) == Truthy(effort) /\ isValidEffortLevel(effort)

\* Mutant: an explicit thinking_budget wins over the effort hint.
ResolvedBudgetExplicitFirst(modelId, options) ==
    LET effort == ReasoningEffortOf(options) IN
    IF Get(options, "thinking_budget").k = "number"
    THEN Get(options, "thinking_budget").v
    ELSE IF UsesEffort(effort)
    THEN mapEffortToThinkingBudget(effort.v, modelId)
    ELSE DEFAULT_THINKING_BUDGET

\* thinkingBudget after the effort mapping
ResolvedBudget(modelId, options) ==
    LET effort == ReasoningEffortOf(options) IN
    IF UsesEffort(effort)
    THEN mapEffortToThinkingBudget(effort.v, modelId)
    ELSE Nullish(Get(options, "thinking_budget"), JNum(DEFAULT_THINKING_BUDGET)).v

\* includeReasoning after the effort mapping
ResolvedIncludeReasoning(options, includeReasoning) ==
    LET effort == ReasoningEffortOf(options) IN
    IF UsesEffort(effort) THEN effort.v # "none" ELSE includeReasoning

\* Mutant: thinkingConfig is left out when reasoning is not enabled.
ThinkingConfigOnlyWhenEnabled(modelId, options, isRealThinkingEnabled, includeReasoning) ==
    IF ~ModelThinking(modelId) THEN EmptyObject
    ELSE IF isRealThinkingEnabled /\ ResolvedIncludeReasoning(options, includeReasoning)
    THEN [thinkingConfig |->
            JObj([thinkingBudget |->
                      JNum(validateThinkingBudget(modelId, ResolvedBudget(modelId, options))),
                  includeThoughts |-> JBool(TRUE)])]
    ELSE EmptyObject

\* if (isThinkingModel) { ... generationConfig.thinkingConfig = ... }
ThinkingConfig(modelId, options, isRealThinkingEnabled, includeReasoning) ==
    IF ~ModelThinking(modelId) THEN EmptyObject
    ELSE LET validatedBudget ==
                 validateThinkingBudget(modelId, ResolvedBudget(modelId, options))
         IN IF isRealThinkingEnabled /\ ResolvedIncludeReasoning(options, includeReasoning)
            THEN [thinkingConfig |->
                    JObj([thinkingBudget |-> JNum(validatedBudget),
                          includeThoughts |-> JBool(TRUE)])]
            ELSE [thinkingConfig |->
                    JObj([thinkingBudget |->
                              JNum(validateThinkingBudget(modelId, DEFAULT_THINKING_BUDGET)),
                          includeThoughts |-> JBool(FALSE)])]

\* The generationConfig literal and the responseMimeType flag.
BaseConfig(options) ==
    [temperature |-> Nullish(Get(options, "temperature"), DEFAULT_TEMPERATURE),
     maxOutputTokens |-> Get(options, "max_tokens"),
     topP |-> Get(options, "top_p"),
     stopSequences |-> IF IsString(Get(options, "stop"))
                       THEN JArr(<<Get(options, "stop")>>)
                       ELSE Get(options, "stop"),
     presencePenalty |-> Get(options, "presence_penalty"),
     frequencyPenalty |-> Get(options, "frequency_penalty"),
     seed |-> Get(options, "seed")]
    @@ (IF GetOpt(Get(options, "response_format"), "type") = JStr("json_object")
        THEN [responseMimeType |-> JStr("application/json")]
        ELSE EmptyObject)

\* Object.keys(generationConfig).forEach((key) =>
\*     generationConfig[key] === undefined && delete generationConfig[key])
RemoveUndefinedKeys(r) == [key \in {x \in DOMAIN r : r[x].k # "undefined"} |-> r[key]]

createValidatedConfig(modelId, options, isRealThinkingEnabled, includeReasoning) ==
    JObj(RemoveUndefinedKeys(
        ThinkingConfig(modelId, options, isRealThinkingEnabled, includeReasoning)
        @@ BaseConfig(options)))

\* An object property that is left out when its value is undefined.
Opt(key, value) == IF value.k = "undefined" THEN EmptyObject ELSE (key :> value)

\* The sampling part of a request: none of it, or all of it.
BaseOptions ==
    { EmptyObject,
      [temperature |-> JNum(2),
       max_tokens |-> JNum(256),
       stop |-> JStr("END"),
       seed |-> JNum(42),
       response_format |-> JObj([type |-> JStr("json_object")])] }

TopEfforts ==
    { JUndefined, JStr(""), JStr("none"), JStr("low"), JStr("medium"), JStr("high"),
      JStr("maximum") }

ExtraBodies ==
    { JUndefined,
      JObj([reasoning_effort |-> JStr("low")]),
      JObj([reasoning_effort |-> JStr("none")]),
      JObj([reasoning_effort |-> JStr("maximum")]) }

ModelParams ==
    { JUndefined,
      JObj([reasoning_effort |-> JStr("high")]),
      JObj([reasoning_effort |-> JStr("none")]) }

\* The requests createValidatedConfig is called with.
ConfigOptions ==
    { JObj(base @@ Opt("thinking_budget", tb) @@ Opt("reasoning_effort", e)
                @@ Opt("extra_body", eb) @@ Opt("model_params", mp)) :
        base \in BaseOptions,
        tb \in {JUndefined} \cup {JNum(b) : b \in Budgets},
        e \in TopEfforts,
        eb \in ExtraBodies,
        mp \in ModelParams }

-----------------------------------------------------------------------------
(* GenerationConfigValidator: the JSON Schema converter *)

\* obj[key] = value
SetKey(obj, key, value) == (key :> value) @@ obj

\* delete obj[key]
DeleteKey(obj, key) == [x \in DOMAIN obj \ {key} |-> obj[x]]

\* Array.isArray(x)
IsArray(x) == x.k = "array"

\* array.includes(x)
Includes(array, x) == \E i \in 1..Len(array) : array[i] = x

\* array.find((t) => t !== "null")
FindNonNull(array) ==
    LET found == {i \in 1..Len(array) : array[i] # JStr("null")} IN
    IF found = {} THEN JUndefined
    ELSE array[CHOOSE i \in found : \A j \in found : i <= j]

RECURSIVE toGeminiType(_)
toGeminiType(type) ==
    IF IsArray(type) THEN toGeminiType(FindNonNull(type.v))
    ELSE LET name == IF IsString(type) THEN ToLowerCase(type.v) ELSE "" IN
         CASE name = "object" -> JStr("OBJECT")
           [] name = "string" -> JStr("STRING")
           [] name = "number" -> JStr("NUMBER")
           [] name = "integer" -> JStr("INTEGER")
           [] name = "boolean" -> JStr("BOOLEAN")
           [] name = "array" -> JStr("ARRAY")
           [] OTHER -> JUndefined

\* What one item of a properties array adds to obj.
PropertyOfItem(item) ==
    IF IsArray(item) /\ Len(item.v) >= 2 /\ IsString(item.v[1])
    THEN item.v[1].v :> item.v[2]
    ELSE IF Truthy(item) /\ IsObject(item) /\ HasKey(item, "key") /\ HasKey(item, "value")
    THEN IF IsString(Get(item, "key"))
         THEN Get(item, "key").v :> Get(item, "value")
         ELSE EmptyObject
    ELSE IF Truthy(item) /\ IsObject(item) /\ HasKey(item, "name") /\ HasKey(item, "schema")
    THEN IF IsString(Get(item, "name"))
         THEN Get(item, "name").v :> Get(item, "schema")
         ELSE EmptyObject
    ELSE EmptyObject

\* for (const item of input) { ... obj[k] = ... }: a later item replaces an earlier one
RECURSIVE PropertiesOfItems(_)
PropertiesOfItems(items) ==
    IF items = <<>> THEN EmptyObject
    ELSE PropertyOfItem(items[Len(items)])
         @@ PropertiesOfItems(SubSeq(items, 1, Len(items) - 1))

normalizeProperties(value) ==
    IF ~Truthy(value) THEN JUndefined
    ELSE IF IsArray(value) THEN JObj(PropertiesOfItems(value.v))
    ELSE IF IsObject(value) THEN value
    ELSE JUndefined

allowList ==
    {"type", "description", "properties", "items", "required", "enum", "format", "nullable"}

\* k.startsWith("$")
StartsWithDollar(key) == key \in {"$schema", "$id"}

\* Object.entries(schema): an array's entries are its indices, which are no schema keys
stripUnsupportedKeys(schema) ==
    IF schema.k # "object" THEN EmptyObject
    ELSE [key \in {x \in DOMAIN schema.v : ~StartsWithDollar(x) /\ x \in allowList}
             |-> schema.v[key]]

\* Mutant: a type that does not map is kept as it came.
WithTypeKept(initial) ==
    IF "type" \in DOMAIN initial /\ Truthy(toGeminiType(initial["type"]))
    THEN SetKey(initial, "type", toGeminiType(initial["type"]))
    ELSE initial

\* Map type to Gemini enum string
WithType(initial) ==
    IF "type" \in DOMAIN initial
    THEN LET mappedType == toGeminiType(initial["type"]) IN
         IF Truthy(mappedType) THEN SetKey(initial, "type", mappedType)
         ELSE DeleteKey(initial, "type")
    ELSE initial

\* Handle nullable if type contained null previously
WithNullable(src, initial) ==
    IF IsArray(Get(src, "type")) /\ Includes(Get(src, "type").v, JStr("null"))
    THEN SetKey(initial, "nullable", JBool(TRUE))
    ELSE initial

\* required
WithRequired(src, initial) ==
    IF IsArray(Get(src, "required"))
    THEN SetKey(initial, "required", JArr(SelectSeq(Get(src, "required").v, IsString)))
    ELSE initial

\* enum
WithEnum(src, initial) ==
    IF IsArray(Get(src, "enum")) THEN SetKey(initial, "enum", Get(src, "enum"))
    ELSE initial

\* description, format (strings)
WithString(src, initial, key) ==
    IF IsString(Get(src, key)) THEN SetKey(initial, key, Get(src, key))
    ELSE initial

RECURSIVE convertJSONSchemaToGeminiSchema(_)

\* Normalize properties
WithProperties(src, initial) ==
    LET props == normalizeProperties(Get(src, "properties")) IN
    IF Get(src, "properties").k # "undefined" /\ Truthy(props)
    THEN LET convertedProps ==
                 [name \in {n \in DOMAIN props.v :
                               Truthy(convertJSONSchemaToGeminiSchema(props.v[n]))}
                     |-> convertJSONSchemaToGeminiSchema(props.v[name])]
         IN IF DOMAIN convertedProps # {}
            THEN SetKey(initial, "properties", JObj(convertedProps))
            ELSE initial
    ELSE initial

\* Items (arrays)
WithItems(src, initial) ==
    LET items == Get(src, "items")
        first == IF IsArray(items)
                 THEN IF Len(items.v) > 0 THEN items.v[1] ELSE JUndefined
                 ELSE items
        conv == convertJSONSchemaToGeminiSchema(first)
    IN IF items.k # "undefined" /\ Truthy(conv)
       THEN SetKey(initial, "items", conv)
       ELSE initial

convertJSONSchemaToGeminiSchema(value) ==
    IF ~Truthy(value) \/ ~IsObject(value) THEN JUndefined
    ELSE LET src == value
             initial == stripUnsupportedKeys(src)
             typed == WithNullable(src, WithType(initial))
             nested == WithItems(src, WithProperties(src, typed))
             listed == WithEnum(src, WithRequired(src, nested))
         IN JObj(WithString(src, WithString(src, listed, "description"), "format"))

-----------------------------------------------------------------------------
(* GenerationConfigValidator: tools and tool choice *)

\* Longest customTools and nativeTools list of a configuration.
MaxTools == 2

\* { name: t.function.name, description: t.function.description,
\*   parameters: convertJSONSchemaToGeminiSchema(t.function.parameters || {}) }
FunctionDeclaration(tool) ==
    LET function == Get(tool, "function") IN
    JObj([name |-> Get(function, "name"),
          description |-> Get(function, "description"),
          parameters |-> convertJSONSchemaToGeminiSchema(
                             OrElse(Get(function, "parameters"), JObj(EmptyObject)))])

\* tools.map((tool) => ({ name, description, parameters }))
FunctionDeclarations(tools) == [i \in 1..Len(tools) |-> FunctionDeclaration(tools[i])]

\* { functionCallingConfig: { mode } }
FunctionCallingMode(name) == JObj([functionCallingConfig |-> JObj([mode |-> JStr(name)])])

\* Mutant: every tool_choice string asks for AUTO.
ToolChoiceConfigStringsAuto(tool_choice) ==
    IF ~Truthy(tool_choice) THEN JObj(EmptyObject)
    ELSE IF IsString(tool_choice) THEN FunctionCallingMode("AUTO")
    ELSE IF IsObject(tool_choice) /\ Truthy(Get(tool_choice, "function"))
    THEN JObj([functionCallingConfig |->
                 JObj([mode |-> JStr("ANY"),
                       allowedFunctionNames |->
                           JArr(<<Get(Get(tool_choice, "function"), "name")>>)])])
    ELSE JObj(EmptyObject)

\* Mutant: a tool_choice that is not recognised falls back to AUTO.
ToolChoiceConfigAutoFallback(tool_choice) ==
    IF tool_choice = JStr("none") THEN FunctionCallingMode("NONE")
    ELSE IF IsObject(tool_choice) /\ Truthy(Get(tool_choice, "function"))
    THEN JObj([functionCallingConfig |->
                 JObj([mode |-> JStr("ANY"),
                       allowedFunctionNames |->
                           JArr(<<Get(Get(tool_choice, "function"), "name")>>)])])
    ELSE FunctionCallingMode("AUTO")

\* Handle tool choice
ToolChoiceConfig(tool_choice) ==
    IF ~Truthy(tool_choice) THEN JObj(EmptyObject)
    ELSE IF tool_choice = JStr("auto") THEN FunctionCallingMode("AUTO")
    ELSE IF tool_choice = JStr("none") THEN FunctionCallingMode("NONE")
    ELSE IF IsObject(tool_choice) /\ Truthy(Get(tool_choice, "function"))
    THEN JObj([functionCallingConfig |->
                 JObj([mode |-> JStr("ANY"),
                       allowedFunctionNames |->
                           JArr(<<Get(Get(tool_choice, "function"), "name")>>)])])
    ELSE JObj(EmptyObject)

createValidateTools(options) ==
    LET given == IsArray(Get(options, "tools")) /\ Len(Get(options, "tools").v) > 0 IN
    [tools |-> IF given
               THEN JArr(<<JObj([functionDeclarations |->
                                   JArr(FunctionDeclarations(Get(options, "tools").v))])>>)
               ELSE JArr(<<>>),
     toolConfig |-> IF given THEN ToolChoiceConfig(Get(options, "tool_choice"))
                    ELSE JObj(EmptyObject)]

\* The wrapper of one native tool.
NativeTool(tool) ==
    IF Truthy(Get(tool, "google_search"))
    THEN JObj([google_search |-> Get(tool, "google_search")])
    ELSE IF Truthy(Get(tool, "url_context"))
    THEN JObj([url_context |-> Get(tool, "url_context")])
    ELSE tool

\* Mutant: a native tool that is neither capability is dropped.
NativeToolsKnownOnly(nativeTools) ==
    LET known(tool) == Truthy(Get(tool, "google_search")) \/ Truthy(Get(tool, "url_context"))
        kept == SelectSeq(nativeTools, known)
    IN JArr([i \in 1..Len(kept) |-> NativeTool(kept[i])])

\* config.nativeTools.map(...)
NativeTools(nativeTools) ==
    JArr([i \in 1..Len(nativeTools) |-> NativeTool(nativeTools[i])])

\* config.useX && config.xTools && config.xTools.length > 0
BranchApplies(use, list) == Truthy(use) /\ Truthy(list) /\ Len(list.v) > 0

createFinalToolConfiguration(config, options) ==
    IF BranchApplies(Get(config, "useCustomTools"), Get(config, "customTools"))
    THEN [tools |->
             JArr(<<JObj([functionDeclarations |->
                            JArr(FunctionDeclarations(Get(config, "customTools").v))])>>),
          toolConfig |-> createValidateTools(options).toolConfig]
    ELSE IF BranchApplies(Get(config, "useNativeTools"), Get(config, "nativeTools"))
    THEN [tools |-> NativeTools(Get(config, "nativeTools").v),
          toolConfig |-> JUndefined]
    ELSE [tools |-> JUndefined, toolConfig |-> JUndefined]

\* The finite sequences over S of length at most n.
SeqUpTo(S, n) == UNION {[1..len -> S] : len \in 0..n}

\* Client tool declarations: one with a parameter schema, one without.
ClientTools ==
    { JObj([type |-> JStr("function"),
            function |-> JObj([name |-> JStr("get_weather"),
                               description |-> JStr("weather by city"),
                               parameters |->
                                   JObj([type |-> JStr("object"),
                                         properties |->
                                             JObj([city |-> JObj([type |-> JStr("string")])]),
                                         required |-> JArr(<<JStr("city")>>),
                                         additionalProperties |-> JBool(FALSE)])])]),
      JObj([type |-> JStr("function"),
            function |-> JObj([name |-> JStr("now")])]) }

\* Native tool objects: the two capabilities and one that is neither.
NativeToolObjects ==
    { JObj([google_search |-> JObj(EmptyObject)]),
      JObj([url_context |-> JObj(EmptyObject)]),
      JObj([code_execution |-> JObj(EmptyObject)]) }

ToolChoices ==
    { JUndefined, JNull, JStr("auto"), JStr("none"), JStr("required"), JNum(1),
      JObj([type |-> JStr("function"),
            function |-> JObj([name |-> JStr("get_weather")])]),
      JObj([function |-> JObj([name |-> JStr("now")])]),
      JObj([type |-> JStr("function")]),
      JArr(<<JStr("auto")>>) }

\* The requests createFinalToolConfiguration is called with.
ToolOptions ==
    { JObj(Opt("tools", tools) @@ Opt("tool_choice", choice)) :
        tools \in {JUndefined, JArr(<<>>)} \cup {JArr(<<tool>>) : tool \in ClientTools},
        choice \in ToolChoices }

\* The configurations createFinalToolConfiguration is called with.
ToolConfigurations ==
    { JObj([useCustomTools |-> JBool(useCustom), useNativeTools |-> JBool(useNative)]
           @@ Opt("customTools", custom) @@ Opt("nativeTools", native)) :
        useCustom \in BOOLEAN,
        useNative \in BOOLEAN,
        custom \in {JUndefined} \cup {JArr(list) : list \in SeqUpTo(ClientTools, MaxTools)},
        native \in {JUndefined} \cup {JArr(list) : list \in SeqUpTo(NativeToolObjects, MaxTools)} }

-----------------------------------------------------------------------------
(* The schemas the converter is called with *)

\* Deepest nesting of sub-schemas below the schema handed to the converter.
MaxDepth == 1

\* Values of the type key: names in several spellings, an unknown name,
\* values that are no strings, and lists with and without "null".
TypeValues ==
    { JStr("string"), JStr("STRING"), JStr("Integer"), JStr("number"), JStr("boolean"),
      JStr("array"), JStr("object"), JStr("null"), JStr("date"), JNum(1), JNull,
      JArr(<<JStr("string"), JStr("null")>>),
      JArr(<<JStr("null"), JStr("integer")>>),
      JArr(<<JStr("string"), JStr("number")>>),
      JArr(<<JStr("date"), JStr("null")>>),
      JArr(<<JNull, JStr("string")>>),
      JArr(<<JStr("null")>>),
      JArr(<<>>) }

\* Keys outside the allow-list.
UnknownKeys ==
    { [oneOf |-> JArr(<<>>)],
      [additionalProperties |-> JBool(FALSE)],
      "$schema" :> JStr("http://json-schema.org/draft-07/schema#") }

\* Schemas without sub-schemas.
FlatSchemas ==
    { JObj(Opt("type", t) @@ Opt("nullable", n)) :
        t \in TypeValues \cup {JUndefined},
        n \in {JUndefined, JBool(TRUE), JBool(FALSE)} }
    \cup { JObj(extra @@ Opt("type", t)) :
             extra \in UnknownKeys, t \in {JUndefined, JStr("string")} }
    \cup { JObj(Opt("description", d) @@ Opt("format", f)) :
             d \in {JUndefined, JStr("a day"), JNum(5), JObj(EmptyObject)},
             f \in {JUndefined, JStr("date-time"), JBool(TRUE)} }
    \cup { JObj(Opt("required", r) @@ Opt("enum", e)) :
             r \in {JUndefined, JStr("a"), JArr(<<>>),
                    JArr(<<JStr("a"), JStr("b")>>),
                    JArr(<<JStr("b"), JNum(1), JStr("a")>>)},
             e \in {JUndefined, JStr("x"), JArr(<<>>), JArr(<<JStr("x"), JNum(1)>>)} }

\* Values in a sub-schema's place that are no objects.
NonSchemas == {JStr("string"), JNum(0), JNull}

\* A second entry beside the sub-schema under test.
Siblings == {JStr("string"), JObj([type |-> JStr("number")])}

\* The shapes of a properties value: a mapping, the three list encodings,
\* list items that are none of them, and a second entry beside the first.
PropertiesForms ==
    {"mapping", "pairs", "key-value", "name-schema", "number-pair", "number-key", "bare",
     "two-names", "same-name"}

\* The properties value of the given shape over the sub-schema sub.
PropertiesOver(form, sub, other) ==
    CASE form = "mapping" -> JObj([a |-> sub])
      [] form = "pairs" -> JArr(<<JArr(<<JStr("a"), sub>>)>>)
      [] form = "key-value" -> JArr(<<JObj([key |-> JStr("a"), value |-> sub])>>)
      [] form = "name-schema" -> JArr(<<JObj([name |-> JStr("a"), schema |-> sub])>>)
      [] form = "number-pair" -> JArr(<<JArr(<<JNum(1), sub>>)>>)
      [] form = "number-key" -> JArr(<<JObj([key |-> JNum(1), value |-> sub])>>)
      [] form = "bare" -> JArr(<<sub>>)
      [] form = "two-names" -> JObj([a |-> sub, b |-> other])
      [] form = "same-name" ->
            JArr(<<JArr(<<JStr("a"), other>>), JArr(<<JStr("a"), sub>>)>>)

\* The shapes of an items value: the schema itself or a list.
ItemsForms == {"schema", "single", "second"}

\* The items value of the given shape over the sub-schema sub.
ItemsOver(form, sub, other) ==
    CASE form = "schema" -> sub
      [] form = "single" -> JArr(<<sub>>)
      [] form = "second" -> JArr(<<other, sub>>)

\* A schema whose properties is the given value.
ObjectSchema(props) == JObj([type |-> JStr("object"), properties |-> props])

\* A schema whose items is the given value.
ArraySchema(items) == JObj([type |-> JStr("array"), items |-> items])

\* Schemas whose properties or items hold no sub-schema.
BareSchemas ==
    { JObj([properties |-> props]) :
        props \in {JObj(EmptyObject), JArr(<<>>), JStr("x"), JNull} }
    \cup { JObj([items |-> JArr(<<>>)]) }

\* Schemas whose properties or items hold one of subs.
NestedSchemas(subs) ==
    { ObjectSchema(PropertiesOver(form, sub, other)) :
        form \in PropertiesForms, sub \in subs, other \in Siblings }
    \cup { ArraySchema(ItemsOver(form, sub, other)) :
             form \in ItemsForms, sub \in subs, other \in Siblings }

\* The schemas that nest sub-schemas to at most the given depth.
RECURSIVE SchemasAt(_)
SchemasAt(depth) ==
    FlatSchemas \cup BareSchemas
    \cup (IF depth = 0 THEN {} ELSE NestedSchemas(NonSchemas \cup SchemasAt(depth - 1)))

\* The values in the place of a sub-schema of the schema handed to the converter.
SubSchemas == NonSchemas \cup SchemasAt(MaxDepth - 1)

\* The values handed to the converter that nest nothing.
PlainInputs == FlatSchemas \cup BareSchemas \cup NonSchemas \cup {JUndefined, JArr(<<>>)}

\* convertJSONSchemaToGeminiSchema(schema) is called and returns.
Converting(schema) ==
    call' = [fn |-> "convertJSONSchemaToGeminiSchema",
             schema |-> schema,
             result |-> convertJSONSchemaToGeminiSchema(schema)]

\* One call of convertJSONSchemaToGeminiSchema, on a schema that nests
\* sub-schemas to at most MaxDepth.
ConvertCall ==
    /\ call.fn = "none"
    /\ \/ \E schema \in PlainInputs : Converting(schema)
       \/ \E form \in PropertiesForms, sub \in SubSchemas, other \in Siblings :
             Converting(ObjectSchema(PropertiesOver(form, sub, other)))
       \/ \E form \in ItemsForms, sub \in SubSchemas, other \in Siblings :
             Converting(ArraySchema(ItemsOver(form, sub, other)))
    /\ UNCHANGED streamVars

------------------------------------------------------------------------\* One call of validateThinkingBudget.
ValidateThinkingBudgetCall ==
    /\ call.fn = "none"
    /\ \E m \in ModelIds, b \in Budgets :
          call' = [fn |-> "validateThinkingBudget",
                   modelId |-> m,
                   thinkingBudget |-> b,
                   result |-> validateThinkingBudget(m, b)]
    /\ UNCHANGED streamVars

\* One call of createValidatedConfig.
CreateValidatedConfigCall ==
    /\ call.fn = "none"
    /\ \E m \in ModelIds, o \in ConfigOptions, real \in BOOLEAN, incl \in BOOLEAN :
          call' = [fn |-> "createValidatedConfig",
                   modelId |-> m,
                   options |-> o,
                   isRealThinkingEnabled |-> real,
                   includeReasoning |-> incl,
                   result |-> createValidatedConfig(m, o, real, incl)]
    /\ UNCHANGED streamVars

\* One call of createFinalToolConfiguration.
CreateFinalToolConfigurationCall ==
    /\ call.fn = "none"
    /\ \E c \in ToolConfigurations, o \in ToolOptions :
          call' = [fn |-> "createFinalToolConfiguration",
                   config |-> c,
                   options |-> o,
                   result |-> createFinalToolConfiguration(c, o)]
    /\ UNCHANGED streamVars

\* One call of a GenerationConfigValidator method.
ValidatorNext ==
    \/ ValidateThinkingBudgetCall
    \/ CreateValidatedConfigCall
    \/ CreateFinalToolConfigurationCall
    \/ ConvertCall

SpecValidator == Init /\ [][ValidatorNext]_vars

-----
(* C11 *)

\* C11: on a reasoning-capable model validateThinkingBudget returns -1 for
\* budget 0 and for every budget below -1 and returns every other budget
\* unchanged; on a model that is not reasoning-capable, or that the
\* capability table does not know, it returns every budget unchanged.
C11_BudgetCorrection ==
    call.fn = "validateThinkingBudget" =>
        LET b == call.thinkingBudget IN
        IF call.modelId \in {"gemini-2.5-pro", "gemini-2.5-flash"}
        THEN call.result = IF b = 0 \/ b < -1 THEN -1 ELSE b
        ELSE call.result = b

\* Budget 0 on gemini-2.5-pro resolves to -1.
C11_Witness ==
    /\ call.fn = "validateThinkingBudget"
    /\ call.modelId = "gemini-2.5-pro"
    /\ call.thinkingBudget = 0
    /\ call.result = -1

-----------------------------------------------------------------------------
(* C12, C13 *)

\* The reasoning-effort hint of a request: the top-level field, else the one
\* of extra_body, else the one of model_params.
EffortHint(options) ==
    LET top == Get(options, "reasoning_effort")
        extra == GetOpt(Get(options, "extra_body"), "reasoning_effort")
        params == GetOpt(Get(options, "model_params"), "reasoning_effort")
    IN IF Truthy(top) THEN top ELSE IF Truthy(extra) THEN extra ELSE params

HintValid(options) ==
    /\ EffortHint(options).k = "string"
    /\ EffortHint(options).v \in {"none", "low", "medium", "high"}

\* The effort-to-budget table, by effort and model class.
TableBudget(effort, modelId) ==
    LET class == IF IncludesFlash(modelId) THEN "flash" ELSE "default" IN
    IF effort \in {"medium", "high"}
    THEN REASONING_EFFORT_BUDGETS[effort][class]
    ELSE REASONING_EFFORT_BUDGETS[effort]

\* The thinkingConfig of the returned configuration.
ResultThinking == call.result.v["thinkingConfig"].v

\* The explicit thinking_budget of the request.
ExplicitBudget == Get(call.options, "thinking_budget")

\* C12: in createValidatedConfig for a reasoning-capable model, when the
\* reasoning-effort hint (top-level field, else extra_body, else model_params)
\* is one of none, low, medium, high: effort "none" gives includeThoughts
\* false; any other effort gives includeThoughts equal to
\* isRealThinkingEnabled, whatever the includeReasoning argument is; and when
\* thoughts are included the thinkingBudget is the table's budget for the
\* effort, whatever the explicit thinking_budget is.
C12_EffortOverridesBudget ==
    (/\ call.fn = "createValidatedConfig"
     /\ ModelThinking(call.modelId)
     /\ HintValid(call.options)) =>
        LET effort == EffortHint(call.options).v IN
        /\ ResultThinking.includeThoughts =
               JBool(call.isRealThinkingEnabled /\ effort # "none")
        /\ ResultThinking.includeThoughts.v =>
               ResultThinking.thinkingBudget = JNum(TableBudget(effort, call.modelId))

\* Effort "low" from extra_body beside an explicit thinking_budget of 2, with
\* includeReasoning false: thoughts are included with the table's budget.
C12_Witness ==
    /\ call.fn = "createValidatedConfig"
    /\ call.modelId = "gemini-2.5-flash"
    /\ call.isRealThinkingEnabled
    /\ ~call.includeReasoning
    /\ ExplicitBudget = JNum(2)
    /\ Get(call.options, "reasoning_effort").k = "undefined"
    /\ EffortHint(call.options) = JStr("low")
    /\ ResultThinking = [thinkingBudget |-> JNum(1024), includeThoughts |-> JBool(TRUE)]

\* The includeReasoning in force after the effort mapping.
EffectiveIncludeReasoning ==
    IF HintValid(call.options)
    THEN EffortHint(call.options).v # "none"
    ELSE call.includeReasoning

\* The budget the request asks for, after the effort mapping and the correction.
ValidatedResolvedBudget ==
    LET resolved == IF HintValid(call.options)
                    THEN TableBudget(EffortHint(call.options).v, call.modelId)
                    ELSE IF ExplicitBudget.k = "number" THEN ExplicitBudget.v
                    ELSE -1
    IN IF resolved = 0 \/ resolved < -1 THEN -1 ELSE resolved

\* C13: createValidatedConfig emits thinkingConfig if and only if the
\* capability table marks the model reasoning-capable; when emitted,
\* includeThoughts is true exactly when isRealThinkingEnabled and the effective
\* includeReasoning are both true, and then thinkingBudget is the validated
\* resolved budget; otherwise thinkingBudget is -1 and includeThoughts is
\* false; the emitted thinkingBudget is never 0 and never below -1.
C13_ThinkingConfig ==
    call.fn = "createValidatedConfig" =>
        /\ "thinkingConfig" \in DOMAIN call.result.v
               <=> call.modelId \in {"gemini-2.5-pro", "gemini-2.5-flash"}
        /\ "thinkingConfig" \in DOMAIN call.result.v =>
              /\ DOMAIN ResultThinking = {"thinkingBudget", "includeThoughts"}
              /\ ResultThinking.includeThoughts =
                     JBool(call.isRealThinkingEnabled /\ EffectiveIncludeReasoning)
              /\ ResultThinking.thinkingBudget =
                     IF call.isRealThinkingEnabled /\ EffectiveIncludeReasoning
                     THEN JNum(ValidatedResolvedBudget)
                     ELSE JNum(-1)
              /\ ResultThinking.thinkingBudget.v # 0
              /\ ResultThinking.thinkingBudget.v >= -1

\* Reasoning is not enabled and the request asks for budget 0: thinkingConfig
\* is still emitted, with budget -1 and thoughts hidden.
C13_Witness ==
    /\ call.fn = "createValidatedConfig"
    /\ call.modelId = "gemini-2.5-pro"
    /\ ~call.isRealThinkingEnabled
    /\ call.includeReasoning
    /\ ExplicitBudget = JNum(0)
    /\ ~HintValid(call.options)
    /\ ResultThinking = [thinkingBudget |-> JNum(-1), includeThoughts |-> JBool(FALSE)]

-----------------------------------------------------------------------------
(* C14, C15, C16 *)

\* The custom-tools branch is taken: useCustomTools with a non-empty customTools list.
CustomBranch ==
    /\ call.fn = "createFinalToolConfiguration"
    /\ Get(call.config, "useCustomTools") = JBool(TRUE)
    /\ Get(call.config, "customTools").k = "array"
    /\ Len(Get(call.config, "customTools").v) > 0

\* The native-tools branch is taken: the custom one is not, and useNativeTools
\* comes with a non-empty nativeTools list.
NativeBranch ==
    /\ call.fn = "createFinalToolConfiguration"
    /\ ~CustomBranch
    /\ Get(call.config, "useNativeTools") = JBool(TRUE)
    /\ Get(call.config, "nativeTools").k = "array"
    /\ Len(Get(call.config, "nativeTools").v) > 0

\* The request's tool_choice.
ToolChoice == Get(call.options, "tool_choice")

\* tool_choice is "auto", "none" or an object with a function member.
ToolChoiceRecognised ==
    \/ ToolChoice \in {JStr("auto"), JStr("none")}
    \/ ToolChoice.k = "object" /\ HasKey(ToolChoice, "function")

\* The toolConfig the claim states for a recognised tool_choice.
StatedToolConfig ==
    IF ToolChoice = JStr("auto")
    THEN JObj([functionCallingConfig |-> JObj([mode |-> JStr("AUTO")])])
    ELSE IF ToolChoice = JStr("none")
    THEN JObj([functionCallingConfig |-> JObj([mode |-> JStr("NONE")])])
    ELSE JObj([functionCallingConfig |->
                 JObj([mode |-> JStr("ANY"),
                       allowedFunctionNames |->
                           JArr(<<Get(Get(ToolChoice, "function"), "name")>>)])])

\* The request itself declares tools: options.tools is a non-empty list.
RequestHasTools ==
    /\ Get(call.options, "tools").k = "array"
    /\ Len(Get(call.options, "tools").v) > 0

\* C14 as stated: whenever createFinalToolConfiguration takes the custom-tools
\* branch, the returned toolConfig is the one tool_choice determines.
C14_ToolChoiceDecides ==
    (CustomBranch /\ ToolChoiceRecognised) => call.result.toolConfig = StatedToolConfig

\* C14: whenever createFinalToolConfiguration takes the custom-tools branch
\* and the request's own tools list is non-empty, the returned toolConfig is
\* the one tool_choice determines: "auto" gives mode AUTO, "none" gives mode
\* NONE, and {function: {name: X}} gives mode ANY with allowedFunctionNames
\* exactly [X].
C14_ToolChoiceDecidesWithTools ==
    (CustomBranch /\ RequestHasTools /\ ToolChoiceRecognised) =>
        call.result.toolConfig = StatedToolConfig

\* The custom branch with tools in the request and a named function: mode ANY
\* with that one name.
C14_Witness ==
    /\ CustomBranch
    /\ RequestHasTools
    /\ ToolChoice = JObj([function |-> JObj([name |-> JStr("now")])])
    /\ call.result.toolConfig =
           JObj([functionCallingConfig |->
                   JObj([mode |-> JStr("ANY"),
                         allowedFunctionNames |-> JArr(<<JStr("now")>>)])])

\* C15 as stated: in the custom-tools branch a tool_choice that is absent or
\* not recognised yields toolConfig undefined.
C15_NoToolConfigUndefined ==
    (CustomBranch /\ ~ToolChoiceRecognised) => call.result.toolConfig = JUndefined

\* C15: in the custom-tools branch a tool_choice that is absent or is neither
\* "auto", "none" nor an object with a function member yields the empty
\* toolConfig object {}, which has no functionCallingConfig.
C15_NoToolConfigEmpty ==
    (CustomBranch /\ ~ToolChoiceRecognised) => call.result.toolConfig = JObj(EmptyObject)

\* The custom branch with tools in the request and tool_choice "required".
C15_Witness ==
    /\ CustomBranch
    /\ RequestHasTools
    /\ ToolChoice = JStr("required")
    /\ call.result.toolConfig = JObj(EmptyObject)

\* C16: createFinalToolConfiguration returns tools and toolConfig undefined
\* whenever neither branch applies; whenever the native branch is taken it
\* returns toolConfig undefined and a tools list as long as nativeTools whose
\* i-th entry stands for the i-th native tool; it never returns an empty tools
\* array.
C16_NativeAndNoBranch ==
    call.fn = "createFinalToolConfiguration" =>
        /\ (~CustomBranch /\ ~NativeBranch) =>
              /\ call.result.tools = JUndefined
              /\ call.result.toolConfig = JUndefined
        /\ NativeBranch =>
              LET nativeTools == Get(call.config, "nativeTools").v IN
              /\ call.result.toolConfig = JUndefined
              /\ call.result.tools.k = "array"
              /\ Len(call.result.tools.v) = Len(nativeTools)
              /\ \A i \in 1..Len(nativeTools) :
                    \/ call.result.tools.v[i] = nativeTools[i]
                    \/ \E key \in {"google_search", "url_context"} :
                          /\ HasKey(nativeTools[i], key)
                          /\ call.result.tools.v[i] = JObj(key :> nativeTools[i].v[key])
        /\ call.result.tools.k = "array" => Len(call.result.tools.v) > 0

\* The native branch over a tool that is neither capability followed by a
\* search tool, while useCustomTools is set with an empty customTools list.
C16_Witness ==
    /\ NativeBranch
    /\ Get(call.config, "useCustomTools") = JBool(TRUE)
    /\ Get(call.config, "customTools") = JArr(<<>>)
    /\ call.result.tools =
           JArr(<<JObj([code_execution |-> JObj(EmptyObject)]),
                  JObj([google_search |-> JObj(EmptyObject)])>>)
    /\ call.result.toolConfig = JUndefined

-----------------------------------------------------------------------------
(* C17 *)

\* The converter was handed a schema object.
Converted ==
    /\ call.fn = "convertJSONSchemaToGeminiSchema"
    /\ call.schema.k = "object"

\* The properties key of the schema handed in.
GivenProperties == Get(call.schema, "properties")

\* C17: a property whose sub-schema is no object is absent from the converted
\* properties mapping, and when the input's properties is a mapping holding no
\* object, or an empty sequence, the output has no properties key.
C17_NoSurvivorNoProperties ==
    Converted =>
        /\ GivenProperties.k = "object" =>
              \A name \in DOMAIN GivenProperties.v :
                  ~IsObject(GivenProperties.v[name]) =>
                      ~HasKey(Get(call.result, "properties"), name)
        /\ (\/ GivenProperties = JArr(<<>>)
            \/ /\ GivenProperties.k = "object"
               /\ \A name \in DOMAIN GivenProperties.v :
                      ~IsObject(GivenProperties.v[name]))
           => ~HasKey(call.result, "properties")

-----------------------------------------------------------------------------
(* C18 *)

\* The keys the converted output may carry.
OutputKeys ==
    {"type", "description", "properties", "items", "required", "enum", "format", "nullable"}

\* Every schema reachable in x through properties and items carries allowed
\* keys only; a mapping under properties is entered by its property names, a
\* list by its entries.
RECURSIVE OnlyOutputKeys(_)
OnlyOutputKeys(x) ==
    CASE x.k = "object" ->
            /\ DOMAIN x.v \subseteq OutputKeys
            /\ LET props == Get(x, "properties") IN
               IF props.k = "object"
               THEN \A name \in DOMAIN props.v : OnlyOutputKeys(props.v[name])
               ELSE OnlyOutputKeys(props)
            /\ OnlyOutputKeys(Get(x, "items"))
      [] x.k = "array" -> \A i \in 1..Len(x.v) : OnlyOutputKeys(x.v[i])
      [] OTHER -> TRUE

\* C18: for every input schema the converted output contains, at every
\* nesting depth reachable through properties and items, only keys of the
\* allow-list, also when items is given as a sequence.
C18_OnlyAllowedKeys ==
    call.fn = "convertJSONSchemaToGeminiSchema" => OnlyOutputKeys(call.result)

-----------------------------------------------------------------------------
(* C19 *)

\* The mapped form of a type entry: the six names in any spelling.
MappedType(entry) ==
    IF entry.k # "string" THEN JUndefined
    ELSE CASE entry.v \in {"object"} -> JStr("OBJECT")
           [] entry.v \in {"string", "STRING"} -> JStr("STRING")
           [] entry.v \in {"number"} -> JStr("NUMBER")
           [] entry.v \in {"integer", "Integer"} -> JStr("INTEGER")
           [] entry.v \in {"boolean"} -> JStr("BOOLEAN")
           [] entry.v \in {"array"} -> JStr("ARRAY")
           [] OTHER -> JUndefined

\* The type key of the schema handed in.
GivenType == Get(call.schema, "type")

\* A list-valued type stands for its first entry that is not "null".
StatedType ==
    IF GivenType.k = "array"
    THEN IF \E i \in 1..Len(GivenType.v) : GivenType.v[i] # JStr("null")
         THEN MappedType(GivenType.v[CHOOSE i \in 1..Len(GivenType.v) :
                            /\ GivenType.v[i] # JStr("null")
                            /\ \A j \in 1..(i - 1) : GivenType.v[j] = JStr("null")])
         ELSE JUndefined
    ELSE MappedType(GivenType)

\* The type is a list that contains "null".
ListWithNull ==
    /\ GivenType.k = "array"
    /\ \E i \in 1..Len(GivenType.v) : GivenType.v[i] = JStr("null")

\* C19: the output's type is the mapped form of the input's type, a list
\* standing for its first entry that is not "null", and there is no type key
\* when that does not map; nullable is true when the list contains "null" and
\* is otherwise what the input's nullable key says.
C19_TypeNormalization ==
    Converted =>
        /\ Get(call.result, "type") = StatedType
        /\ HasKey(call.result, "type") <=> StatedType # JUndefined
        /\ Get(call.result, "nullable") =
               IF ListWithNull THEN JBool(TRUE) ELSE Get(call.schema, "nullable")

\* type ["string", "null"] becomes {type: "STRING", nullable: true}.
C19_Witness ==
    /\ Converted
    /\ call.schema = JObj([type |-> JArr(<<JStr("string"), JStr("null")>>)])
    /\ call.result = JObj([type |-> JStr("STRING"), nullable |-> JBool(TRUE)])

-----------------------------------------------------------------------------
(* C20 *)

\* The strings among the entries of a list, in their order.
StringsOf(list) == SelectSeq(list, LAMBDA entry : entry.k = "string")

\* C20: in the output description and format are present only when the
\* input's value for the key is a string, required holds only the
\* string-valued entries of the input's required in their order, and enum is
\* the input's sequence unchanged.
C20_PassThrough ==
    Converted =>
        /\ \A key \in {"description", "format"} :
              HasKey(call.result, key) =>
                  /\ Get(call.schema, key).k = "string"
                  /\ Get(call.result, key) = Get(call.schema, key)
        /\ HasKey(call.result, "required") =>
              /\ Get(call.schema, "required").k = "array"
              /\ Get(call.result, "required") =
                     JArr(StringsOf(Get(call.schema, "required").v))
        /\ Get(call.schema, "enum").k = "array" =>
              Get(call.result, "enum") = Get(call.schema, "enum")

-----------------------------------------------------------------------------
(* C21 *)

\* The case labels of the switch.
RecognizedKinds ==
    {"text", "thinking_content", "real_thinking", "reasoning", "reasoning_end",
     "tool_code", "native_tool", "grounding_metadata", "usage"}

IsRecognized(chunk) == chunk.type \in RecognizedKinds

\* Largest number of chunks handed to the stream that is sent unknown kinds.
MaxSkipChunks == 2

\* Chunks of recognized kinds and chunks of kinds the switch has no case for,
\* with data that a recognized kind would accept.
SkipChunks ==
    { Chunk("text", JStr("Hi")),
      Chunk("tool_code", FunctionCall),
      Chunk("usage", Usage(10, 5)),
      Chunk("ping", JStr("Hi")),
      Chunk("TEXT", JStr("Hi")),
      Chunk("function_call", FunctionCall),
      Chunk("usage_metadata", Usage(3, 7)) }

SkipModes == {"openai", "r1"}

\* The chunks of a sequence that the switch has a case for.
Recognized(chunks) == SelectSeq(chunks, IsRecognized)

\* Two stream instances: stream 1 is handed any sequence of SkipChunks,
\* stream 2 is created alike and is handed the same sequence without the
\* chunks of unknown kind.
SkipNext ==
    \/ \E m \in Models, o \in SkipModes : Create(1, m, o)
    \/ \E c \in SkipChunks : Len(input[1]) < MaxSkipChunks /\ Transform(1, c)
    \/ Flush(1)
    \/ status[1] # "absent" /\ Create(2, model[1], outputMode[1])
    \/ /\ Len(input[2]) < Len(Recognized(input[1]))
       /\ Transform(2, Recognized(input[1])[Len(input[2]) + 1])
    \/ status[1] = "closed" /\ Len(input[2]) = Len(Recognized(input[1])) /\ Flush(2)

SpecSkip == Init /\ [][SkipNext]_vars

\* One transform call on stream s with a chunk of unknown kind: nothing but
\* the record of the chunks handed in changes.
UnknownKindStep(s) ==
    (Len(input'[s]) = Len(input[s]) + 1 /\ ~IsRecognized(input'[s][Len(input'[s])])) =>
        /\ status'[s] = "open"
        /\ out'[s] = out[s]
        /\ firstChunk'[s] = firstChunk[s]
        /\ toolCallId'[s] = toolCallId[s]
        /\ toolCallName'[s] = toolCallName[s]
        /\ usageData'[s] = usageData[s]

\* Stream 2 was created like stream 1, was handed stream 1's chunks without
\* those of unknown kind, and both ended.
SameRunButUnknown ==
    /\ status[1] = "closed" /\ status[2] = "closed"
    /\ model[1] = model[2]
    /\ outputMode[1] = outputMode[2]
    /\ input[2] = Recognized(input[1])

\* C21: a chunk of a kind the switch has no case for adds no frame, leaves the
\* stream open and leaves the first-chunk flag, the tool-call id and name and
\* the recorded usage as they were, and the frames of a whole stream are those
\* of the same stream without its chunks of unknown kind (up to the random
\* ids).
C21_UnknownKindIsNoOp ==
    /\ [][\A s \in Streams : UnknownKindStep(s)]_vars
    /\ [](SameRunButUnknown =>
            /\ Len(out[1]) = Len(out[2])
            /\ \A k \in Frames(1) : MaskAllIds(out[1][k]) = MaskAllIds(out[2][k]))

\* An unknown chunk, then text: the text frame still carries the role, and
\* the stream without the unknown chunk ended with the same two frames and
\* the sentinel.
C21_Witness ==
    /\ SameRunButUnknown
    /\ Len(input[1]) = 2
    /\ input[1][1] = Chunk("TEXT", JStr("Hi"))
    /\ input[1][2] = Chunk("text", JStr("Hi"))
    /\ Len(input[2]) = 1
    /\ Len(out[1]) = 3
    /\ origin[1] = <<2, 0, 0>>
    /\ HasDelta(out[1][1], "role")

-----------------------------------------------------------------------------
(* C22 *)

\* C22: every frame that a transform call emitted carries at least one delta
\* field in its payload, so a chunk that leaves the payload's delta without a
\* field (a reasoning chunk with toolCode and no reasoning text among them)
\* has no frame.
C22_FramesCarryDelta ==
    \A s \in Streams :
        \A k \in ChunkFrames(s) : DOMAIN DeltaOf(out[s][k]) # {}

-----------------------------------------------------------------------------
(* C23 *)

\* Largest number of chunks handed to each of the concurrently active streams.
MaxConcurrentChunks == 1

ConcurrentChunks ==
    { Chunk("text", JStr("Hi")),
      Chunk("real_thinking", JStr("Hm")),
      Chunk("tool_code", FunctionCall),
      Chunk("usage", Usage(10, 5)) }

ConcurrentModes == {"openai", "r1"}

\* Several transformers at once: each is created, is handed chunks and is
\* flushed at any moment relative to the others.
ConcurrentNext ==
    \/ \E s \in Streams, m \in Models, o \in ConcurrentModes : Create(s, m, o)
    \/ \E s \in Streams, c \in ConcurrentChunks :
          Len(input[s]) < MaxConcurrentChunks /\ Transform(s, c)
    \/ \E s \in Streams : Flush(s)

SpecConcurrent == Init /\ [][ConcurrentNext]_vars

\* A frame without the ids of its tool calls.
MaskCalls(f) ==
    IF IsJson(f)
    THEN SseFrame([f.v EXCEPT !.choices = << [f.v.choices[1] EXCEPT !.delta = MaskCallIds(@)] >>])
    ELSE f

\* What one transformer alone holds after a chunk sequence: its flag, its
\* tool-call id (masked), its usage and its queue.
RECURSIVE Alone(_, _, _, _, _)
Alone(id, created, m, o, chunks) ==
    IF chunks = <<>>
    THEN [first |-> TRUE, callId |-> JNull, usage |-> JUndefined, queue |-> <<>>]
    ELSE LET prev == Alone(id, created, m, o, SubSeq(chunks, 1, Len(chunks) - 1))
             chunk == chunks[Len(chunks)]
         IN IF chunk.type = "usage"
            THEN [prev EXCEPT !.usage = NextUsage(@, chunk.data)]
            ELSE [first |-> NextFirstChunk(prev.first, chunk),
                  callId |-> IF chunk.type = "tool_code" /\ isGeminiFunctionCall(chunk.data)
                             THEN MaskedCallId ELSE prev.callId,
                  usage |-> prev.usage,
                  queue |-> Emit(prev.queue, id, created, m,
                                 Delta(chunk, prev.first, isR1(o), MaskedCallId.v))]

\* The frames of stream s as its own chat id, created value, model, mode and
\* chunk sequence give them, whatever happened on other streams.
FramesAlone(s) ==
    LET a == Alone(chatID[s], creationTime[s], model[s], outputMode[s], input[s])
    IN IF status[s] = "closed"
       THEN a.queue \o << SseFrame(Payload(FinalChunk(chatID[s], creationTime[s], model[s],
                                                      a.callId, a.usage),
                                           isR1(outputMode[s]))),
                          DoneFrame >>
       ELSE a.queue

\* A step that hands stream s no chunk and neither creates nor flushes it
\* leaves everything of stream s as it was.
UntouchedStep(s) ==
    (input'[s] = input[s] /\ status'[s] = status[s]) =>
        /\ firstChunk'[s] = firstChunk[s]
        /\ toolCallId'[s] = toolCallId[s]
        /\ toolCallName'[s] = toolCallName[s]
        /\ usageData'[s] = usageData[s]
        /\ out'[s] = out[s]
        /\ chatID'[s] = chatID[s]
        /\ creationTime'[s] = creationTime[s]
        /\ model'[s] = model[s]
        /\ outputMode'[s] = outputMode[s]

\* C23: with several transformers active and their creations, chunks and
\* flushes interleaved in any order, a step on one stream changes nothing of
\* another, a stream's chat id and created value never change once it exists,
\* every frame of a stream carries them, and the frames of a stream are those
\* that its own model, mode and chunk sequence give (up to the random call
\* ids).
C23_StreamsAreIsolated ==
    /\ [][\A s \in Streams :
            /\ UntouchedStep(s)
            /\ status[s] # "absent" =>
                  chatID'[s] = chatID[s] /\ creationTime'[s] = creationTime[s]]_vars
    /\ [](\A s \in Streams :
            /\ \A k \in Frames(s) :
                  IsJson(out[s][k]) =>
                      out[s][k].v.id = chatID[s] /\ out[s][k].v.created = creationTime[s]
            /\ status[s] # "absent" =>
                  [k \in Frames(s) |-> MaskCalls(out[s][k])] = FramesAlone(s))

\* Two streams open at once with different chat ids and created values:
\* stream 1 made a tool call, and the text frame of stream 2 still carries
\* the role and stream 2 has no tool-call id.
C23_Witness ==
    /\ status[1] = "open" /\ status[2] = "open"
    /\ chatID[1] # chatID[2]
    /\ creationTime[1] # creationTime[2]
    /\ input[1] = << Chunk("tool_code", FunctionCall) >>
    /\ input[2] = << Chunk("text", JStr("Hi")) >>
    /\ toolCallId[1] # JNull
    /\ toolCallId[2] = JNull
    /\ firstChunk[2] = FALSE
    /\ Len(out[2]) = 1
    /\ HasDelta(out[2][1], "role")

====
